---- MODULE Spec2Model ----
(***************************************************************************)
(* Intent classification with keyword fallback                            *)
(* (supervisor/intent_identifier.py).                                      *)
(*                                                                         *)
(* Text is modelled character by character: a Python str is a sequence of  *)
(* one-character strings, so that lower(), strip(), startswith(),          *)
(* endswith(), slicing and the `in` substring test are computed as Python  *)
(* computes them.  Confidence values are kept in hundredths (0.7 is 70).   *)
(***************************************************************************)
EXTENDS Integers, Sequences, FiniteSets, TLC

VARIABLES
    pc,                    \* position of the identify_intent call
    user_query,            \* argument user_query (a str)
    conversation_history,  \* argument conversation_history (None or a list of dicts)
    prompt,                \* the prompt handed to model.generate_content
    llm,                   \* what the LLM call did on this invocation
    llm_calls,             \* number of model.generate_content calls of this invocation
    path,                  \* the return statement that produced the result
    result,                \* the dict returned to the caller
    _intent_identifier,    \* module global _intent_identifier (0 is None)
    constructed,           \* number of IntentIdentifier() constructions so far
    gpc,                   \* per caller: position inside get_intent_identifier
    got,                   \* per caller: value its last call returned (0: none yet)
    returned,              \* every instance any call has returned
    overlapped             \* some call ran a step while another call was in progress

ivars == <<pc, user_query, conversation_history, prompt, llm, llm_calls, path, result>>
svars == <<_intent_identifier, constructed, gpc, got, returned, overlapped>>
vars == <<pc, user_query, conversation_history, prompt, llm, llm_calls, path, result,
          _intent_identifier, constructed, gpc, got, returned, overlapped>>

(***************************************************************************)
(* Bounds of the model.                                                    *)
(***************************************************************************)
MaxFragments == 2   \* a query is up to MaxFragments phrases joined by spaces
MaxHistory == 4     \* conversation histories of 0..MaxHistory messages
NCallers == 3       \* concurrent callers of get_intent_identifier

(***************************************************************************)
(* The registry: AGENT_DESCRIPTIONS in insertion order, each agent with    *)
(* its keyword list.                                                       *)
(***************************************************************************)
AGENT_DESCRIPTIONS == <<
    [agent_id |-> "adaptive_quiz_master_agent",
     keywords |-> <<
        <<"q","u","i","z">>,  \* quiz
        <<"t","e","s","t">>,  \* test
        <<"q","u","e","s","t","i","o","n","s">>,  \* questions
        <<"a","s","s","e","s","s","m","e","n","t">>,  \* assessment
        <<"a","d","a","p","t","i","v","e">>,  \* adaptive
        <<"p","r","a","c","t","i","c","e">>,  \* practice
        <<"m","c","q">>,  \* mcq
        <<"t","r","u","e","/","f","a","l","s","e">>  \* true/false
     >>],
    [agent_id |-> "assignment_coach_agent",
     keywords |-> <<
        <<"a","s","s","i","g","n","m","e","n","t">>,  \* assignment
        <<"h","o","m","e","w","o","r","k">>,  \* homework
        <<"t","a","s","k">>,  \* task
        <<"b","r","e","a","k","d","o","w","n">>,  \* breakdown
        <<"g","u","i","d","a","n","c","e">>,  \* guidance
        <<"h","e","l","p"," ","w","i","t","h"," ","a","s","s","i","g","n","m","e","n","t">>,  \* help with assignment
        <<"p","r","o","j","e","c","t"," ","h","e","l","p">>  \* project help
     >>],
    [agent_id |-> "plagiarism_prevention_agent",
     keywords |-> <<
        <<"p","l","a","g","i","a","r","i","s","m">>,  \* plagiarism
        <<"c","h","e","c","k"," ","o","r","i","g","i","n","a","l","i","t","y">>,  \* check originality
        <<"r","e","p","h","r","a","s","e">>,  \* rephrase
        <<"p","a","r","a","p","h","r","a","s","e">>,  \* paraphrase
        <<"o","r","i","g","i","n","a","l","i","t","y">>,  \* originality
        <<"c","o","p","i","e","d"," ","c","o","n","t","e","n","t">>,  \* copied content
        <<"a","u","t","h","e","n","t","i","c","i","t","y">>  \* authenticity
     >>],
    [agent_id |-> "research_scout_agent",
     keywords |-> <<
        <<"r","e","s","e","a","r","c","h">>,  \* research
        <<"p","a","p","e","r","s">>,  \* papers
        <<"a","r","t","i","c","l","e","s">>,  \* articles
        <<"c","a","s","e"," ","s","t","u","d","i","e","s">>,  \* case studies
        <<"l","i","t","e","r","a","t","u","r","e"," ","r","e","v","i","e","w">>,  \* literature review
        <<"f","i","n","d"," ","p","a","p","e","r","s">>,  \* find papers
        <<"a","c","a","d","e","m","i","c"," ","s","o","u","r","c","e","s">>  \* academic sources
     >>],
    [agent_id |-> "concept_reinforcement_agent",
     keywords |-> <<
        <<"p","r","a","c","t","i","c","e">>,  \* practice
        <<"w","e","a","k"," ","t","o","p","i","c","s">>,  \* weak topics
        <<"r","e","i","n","f","o","r","c","e","m","e","n","t">>,  \* reinforcement
        <<"s","t","r","u","g","g","l","i","n","g"," ","w","i","t","h">>,  \* struggling with
        <<"n","e","e","d"," ","m","o","r","e"," ","p","r","a","c","t","i","c","e">>,  \* need more practice
        <<"f","l","a","s","h","c","a","r","d","s">>,  \* flashcards
        <<"r","e","v","i","e","w">>  \* review
     >>],
    [agent_id |-> "citation_manager_agent",
     keywords |-> <<
        <<"c","i","t","a","t","i","o","n">>,  \* citation
        <<"r","e","f","e","r","e","n","c","e">>,  \* reference
        <<"b","i","b","l","i","o","g","r","a","p","h","y">>,  \* bibliography
        <<"A","P","A">>,  \* APA
        <<"M","L","A">>,  \* MLA
        <<"C","h","i","c","a","g","o">>,  \* Chicago
        <<"c","i","t","e">>,  \* cite
        <<"f","o","r","m","a","t"," ","r","e","f","e","r","e","n","c","e">>  \* format reference
     >>],
    [agent_id |-> "peer_collaboration_agent",
     keywords |-> <<
        <<"t","e","a","m">>,  \* team
        <<"c","o","l","l","a","b","o","r","a","t","i","o","n">>,  \* collaboration
        <<"g","r","o","u","p"," ","w","o","r","k">>,  \* group work
        <<"t","e","a","m","w","o","r","k">>,  \* teamwork
        <<"d","i","s","c","u","s","s","i","o","n"," ","a","n","a","l","y","s","i","s">>,  \* discussion analysis
        <<"t","e","a","m"," ","f","e","e","d","b","a","c","k">>,  \* team feedback
        <<"c","o","o","r","d","i","n","a","t","i","o","n">>  \* coordination
     >>],
    [agent_id |-> "adaptive_flashcard_agent",
     keywords |-> <<
        <<"f","l","a","s","h","c","a","r","d">>,  \* flashcard
        <<"m","e","m","o","r","i","z","e">>,  \* memorize
        <<"r","e","c","a","l","l">>,  \* recall
        <<"s","t","u","d","y"," ","c","a","r","d","s">>,  \* study cards
        <<"m","e","m","o","r","y">>,  \* memory
        <<"r","e","t","e","n","t","i","o","n">>  \* retention
     >>],
    [agent_id |-> "presentation_feedback_agent",
     keywords |-> <<
        <<"p","r","e","s","e","n","t","a","t","i","o","n">>,  \* presentation
        <<"f","e","e","d","b","a","c","k">>,  \* feedback
        <<"s","p","e","e","c","h">>,  \* speech
        <<"d","e","l","i","v","e","r","y">>,  \* delivery
        <<"p","u","b","l","i","c"," ","s","p","e","a","k","i","n","g">>,  \* public speaking
        <<"t","r","a","n","s","c","r","i","p","t"," ","a","n","a","l","y","s","i","s">>,  \* transcript analysis
        <<"p","r","e","s","e","n","t","i","n","g">>  \* presenting
     >>],
    [agent_id |-> "lecture_insight_agent",
     keywords |-> <<
        <<"l","e","c","t","u","r","e">>,  \* lecture
        <<"a","u","d","i","o">>,  \* audio
        <<"r","e","c","o","r","d","i","n","g">>,  \* recording
        <<"n","o","t","e","s">>,  \* notes
        <<"s","u","m","m","a","r","i","z","e"," ","l","e","c","t","u","r","e">>,  \* summarize lecture
        <<"a","u","d","i","o"," ","a","n","a","l","y","s","i","s">>,  \* audio analysis
        <<"c","l","a","s","s"," ","r","e","c","o","r","d","i","n","g">>  \* class recording
     >>],
    [agent_id |-> "question_anticipator_agent",
     keywords |-> <<
        <<"e","x","a","m"," ","q","u","e","s","t","i","o","n","s">>,  \* exam questions
        <<"p","r","e","d","i","c","t"," ","q","u","e","s","t","i","o","n","s">>,  \* predict questions
        <<"s","y","l","l","a","b","u","s"," ","a","n","a","l","y","s","i","s">>,  \* syllabus analysis
        <<"p","a","s","t"," ","p","a","p","e","r","s">>,  \* past papers
        <<"e","x","a","m"," ","p","r","e","p","a","r","a","t","i","o","n">>,  \* exam preparation
        <<"l","i","k","e","l","y"," ","q","u","e","s","t","i","o","n","s">>  \* likely questions
     >>],
    [agent_id |-> "daily_revision_proctor_agent",
     keywords |-> <<
        <<"r","e","v","i","s","i","o","n">>,  \* revision
        <<"d","a","i","l","y"," ","s","t","u","d","y">>,  \* daily study
        <<"r","e","m","i","n","d","e","r","s">>,  \* reminders
        <<"s","t","u","d","y"," ","r","o","u","t","i","n","e">>,  \* study routine
        <<"p","r","o","g","r","e","s","s"," ","t","r","a","c","k","i","n","g">>,  \* progress tracking
        <<"s","t","u","d","y"," ","h","a","b","i","t","s">>  \* study habits
     >>],
    [agent_id |-> "study_scheduler_agent",
     keywords |-> <<
        <<"s","c","h","e","d","u","l","e">>,  \* schedule
        <<"t","i","m","e","t","a","b","l","e">>,  \* timetable
        <<"s","t","u","d","y"," ","p","l","a","n">>,  \* study plan
        <<"t","i","m","e"," ","m","a","n","a","g","e","m","e","n","t">>,  \* time management
        <<"o","r","g","a","n","i","z","e"," ","s","t","u","d","y">>,  \* organize study
        <<"c","a","l","e","n","d","a","r">>  \* calendar
     >>],
    [agent_id |-> "exam_readiness_agent",
     keywords |-> <<
        <<"e","x","a","m">>,  \* exam
        <<"a","s","s","e","s","s","m","e","n","t">>,  \* assessment
        <<"r","e","a","d","i","n","e","s","s">>,  \* readiness
        <<"m","o","c","k"," ","t","e","s","t">>,  \* mock test
        <<"e","x","a","m"," ","p","r","e","p">>,  \* exam prep
        <<"p","r","a","c","t","i","c","e"," ","e","x","a","m">>  \* practice exam
     >>],
    [agent_id |-> "gemini-wrapper",
     keywords |-> <<
        <<"g","e","n","e","r","a","l">>,  \* general
        <<"c","h","a","t">>,  \* chat
        <<"e","x","p","l","a","i","n">>,  \* explain
        <<"t","e","l","l"," ","m","e"," ","a","b","o","u","t">>,  \* tell me about
        <<"w","h","a","t"," ","i","s">>,  \* what is
        <<"h","o","w"," ","d","o","e","s">>,  \* how does
        <<"c","o","n","v","e","r","s","a","t","i","o","n">>  \* conversation
     >>]
>>

AgentIndex == 1..Len(AGENT_DESCRIPTIONS)

\* The keys of AGENT_DESCRIPTIONS.
AgentIds == {AGENT_DESCRIPTIONS[i].agent_id : i \in AgentIndex}

(***************************************************************************)
(* Python str operations.                                                  *)
(***************************************************************************)
UpperCase == <<"A","B","C","D","E","F","G","H","I","J","K","L","M",
               "N","O","P","Q","R","S","T","U","V","W","X","Y","Z">>
LowerCase == <<"a","b","c","d","e","f","g","h","i","j","k","l","m",
               "n","o","p","q","r","s","t","u","v","w","x","y","z">>

\* str.lower() on one character.
LowerChar(c) ==
    IF \E i \in 1..Len(UpperCase) : UpperCase[i] = c
    THEN LowerCase[CHOOSE i \in 1..Len(UpperCase) : UpperCase[i] = c]
    ELSE c

\* str.lower()
RECURSIVE Lower(_)
Lower(s) == IF s = <<>> THEN <<>> ELSE <<LowerChar(Head(s))>> \o Lower(Tail(s))

\* `keyword in text` for two str: keyword occurs as a contiguous substring.
Contains(text, keyword) ==
    \E i \in 0..(Len(text) - Len(keyword)) :
        \A j \in 1..Len(keyword) : text[i + j] = keyword[j]

Whitespace == {" ", "\n", "\t"}

RECURSIVE LStrip(_)
LStrip(s) == IF s # <<>> /\ Head(s) \in Whitespace THEN LStrip(Tail(s)) ELSE s

RECURSIVE RStrip(_)
RStrip(s) ==
    IF s # <<>> /\ s[Len(s)] \in Whitespace THEN RStrip(SubSeq(s, 1, Len(s) - 1)) ELSE s

\* str.strip()
Strip(s) == RStrip(LStrip(s))

\* str.startswith / str.endswith
StartsWith(s, p) == Len(s) >= Len(p) /\ SubSeq(s, 1, Len(p)) = p
EndsWith(s, p) == Len(s) >= Len(p) /\ SubSeq(s, Len(s) - Len(p) + 1, Len(s)) = p

(***************************************************************************)
(* JSON values and Python dicts.  A value is a record of its kind, its     *)
(* text (strings; the literal of a nested list or object) and its number   *)
(* in hundredths.  A dict is a function from its keys to values.           *)
(***************************************************************************)
JStr(s) == [kind |-> "string", s |-> s, n |-> 0]
JNum(n) == [kind |-> "number", s |-> "", n |-> n]
JBool(b) == [kind |-> "bool", s |-> IF b THEN "true" ELSE "false", n |-> 0]
JList(lit) == [kind |-> "list", s |-> lit, n |-> 0]
JDict(lit) == [kind |-> "dict", s |-> lit, n |-> 0]
JNone == [kind |-> "none", s |-> "", n |-> 0]

\* dict.get(key): None when the key is absent.
Get(d, key) == IF key \in DOMAIN d THEN d[key] ELSE JNone

\* d[key] = value
Put(d, key, value) ==
    [k \in (DOMAIN d) \cup {key} |-> IF k = key THEN value ELSE d[k]]

EmptyDict == [k \in {} |-> JNone]

(***************************************************************************)
(* _fallback_intent: keyword scoring over the registry.                    *)
(***************************************************************************)
\* sum(1 for keyword in info['keywords'] if keyword in query_lower)
RECURSIVE CountMatches(_, _, _)
CountMatches(keywords, query_lower, j) ==
    IF j > Len(keywords) THEN 0
    ELSE (IF Contains(query_lower, keywords[j]) THEN 1 ELSE 0)
         + CountMatches(keywords, query_lower, j + 1)

Score(info, query_lower) == CountMatches(info.keywords, query_lower, 1)

\* `if score > best_score`
BetterLastWins(score, best_score) == score >= best_score

Better(score, best_score) == score > best_score

\* The for loop over AGENT_DESCRIPTIONS.items(); best_match "" is None.
RECURSIVE FallbackLoop(_, _, _, _)
FallbackLoop(i, query_lower, best_match, best_score) ==
    IF i > Len(AGENT_DESCRIPTIONS) THEN [best_match |-> best_match, best_score |-> best_score]
    ELSE LET score == Score(AGENT_DESCRIPTIONS[i], query_lower)
         IN  IF Better(score, best_score)
             THEN FallbackLoop(i + 1, query_lower, AGENT_DESCRIPTIONS[i].agent_id, score)
             ELSE FallbackLoop(i + 1, query_lower, best_match, best_score)

Min(a, b) == IF a < b THEN a ELSE b

FallbackDefaults ==
    [is_ambiguous |-> JBool(FALSE), clarifying_questions |-> JList("[]"),
     extracted_params |-> JDict("{}"), alternative_agents |-> JList("[]")]

\* query_lower = user_query.lower()
QueryLower(user_query_) == Lower(user_query_)

_fallback_intent(user_query_) ==
    LET query_lower == QueryLower(user_query_)
        best == FallbackLoop(1, query_lower, "", 0)
    IN  IF best.best_match # "" /\ best.best_score > 0
        THEN [k \in {"agent_id", "confidence", "reasoning"} \cup DOMAIN FallbackDefaults |->
                CASE k = "agent_id" -> JStr(best.best_match)
                  [] k = "confidence" -> JNum(Min(70, best.best_score * 20))
                  [] k = "reasoning" -> JStr("Fallback keyword matching used")
                  [] OTHER -> FallbackDefaults[k]]
        ELSE [k \in {"agent_id", "confidence", "reasoning"} \cup DOMAIN FallbackDefaults |->
                CASE k = "agent_id" -> JStr("gemini-wrapper")
                  [] k = "confidence" -> JNum(30)
                  [] k = "reasoning" -> JStr("No specific agent matched, using general LLM")
                  [] OTHER -> FallbackDefaults[k]]

(***************************************************************************)
(* Inputs: queries and conversation histories.                             *)
(***************************************************************************)
\* Phrases a query is built from:
\*   "quiz me on linear algebra", "banana smoothie recipe", "use MLA",
\*   "Practice Exam Prep", "mock test"
Fragments == <<
    <<"q","u","i","z"," ","m","e"," ","o","n"," ","l","i","n","e","a","r"," ","a","l","g","e","b","r","a">>,
    <<"b","a","n","a","n","a"," ","s","m","o","o","t","h","i","e"," ","r","e","c","i","p","e">>,
    <<"u","s","e"," ","M","L","A">>,
    <<"P","r","a","c","t","i","c","e"," ","E","x","a","m"," ","P","r","e","p">>,
    <<"m","o","c","k"," ","t","e","s","t">>
>>

RECURSIVE Join(_)
Join(parts) ==
    IF parts = <<>> THEN <<>>
    ELSE IF Len(parts) = 1 THEN Head(parts)
    ELSE Head(parts) \o <<" ">> \o Join(Tail(parts))

\* Selections of up to MaxFragments phrases, in the order of Fragments.
FragmentSeqs ==
    {f \in UNION {[1..n -> 1..Len(Fragments)] : n \in 0..MaxFragments} :
        \A i \in 1..(Len(f) - 1) : f[i] < f[i + 1]}

\* The query strings: the selected phrases joined by single spaces.
Queries == {Join([i \in 1..Len(f) |-> Fragments[f[i]]]) : f \in FragmentSeqs}

\* One message of a conversation: a dict with optional "role" and "content".
Message(i) ==
    CASE i % 3 = 1 -> [role |-> "user", content |-> "hello"]
      [] i % 3 = 2 -> [content |-> "which agent?"]
      [] OTHER -> [k \in {} |-> ""]

\* conversation_history: None, or a list of 0..MaxHistory messages.
NoHistory == [present |-> FALSE, msgs |-> <<>>]

Histories ==
    {NoHistory} \cup {[present |-> TRUE, msgs |-> [i \in 1..n |-> Message(i)]] : n \in 0..MaxHistory}

(***************************************************************************)
(* _build_prompt                                                           *)
(***************************************************************************)
\* msg.get(key, default)
MsgGet(msg, key, default) == IF key \in DOMAIN msg THEN msg[key] ELSE default

\* conversation_history[-3:]
LastThree(msgs) == IF Len(msgs) <= 3 THEN msgs ELSE SubSeq(msgs, Len(msgs) - 2, Len(msgs))

\* The history lines "<role>: <content>" (empty when the history is None or []).
HistoryContext(history) ==
    IF history.present /\ history.msgs # <<>>
    THEN [i \in 1..Len(LastThree(history.msgs)) |->
            <<MsgGet(LastThree(history.msgs)[i], "role", "user"),
              MsgGet(LastThree(history.msgs)[i], "content", "")>>]
    ELSE <<>>

\* __build_agent_context lists every agent of the registry, in order.
_build_agent_context == [i \in AgentIndex |-> AGENT_DESCRIPTIONS[i].agent_id]

_build_prompt(user_query_, history) ==
    [agent_context |-> _build_agent_context,
     history_context |-> HistoryContext(history),
     user_query |-> user_query_]

NoPrompt == [agent_context |-> <<>>, history_context |-> <<>>, user_query |-> <<>>]

(***************************************************************************)
(* The LLM's behaviours.  A response text is a sequence of characters;     *)
(* a JSON document or other run of text without whitespace or backticks    *)
(* at its ends is carried as one item naming it.                           *)
(***************************************************************************)
KnownObject ==
    [agent_id |-> JStr("research_scout_agent"), confidence |-> JNum(95),
     reasoning |-> JStr("asks for papers"), is_ambiguous |-> JBool(FALSE),
     clarifying_questions |-> JList("[]"), extracted_params |-> JDict("{topic: AI}"),
     alternative_agents |-> JList("[citation_manager_agent]")]

\* What json.loads gives for each document: a dict, a value that is not a
\* dict, or JSONDecodeError.
Documents ==
    [doc \in {"J_known", "J_known_conf_7", "J_known_no_conf", "J_unknown", "J_empty_object",
              "J_agent_list", "J_array", "not json"} |->
        CASE doc = "J_known" -> [json |-> TRUE, dict |-> TRUE, value |-> KnownObject]
          [] doc = "J_known_conf_7" ->
                [json |-> TRUE, dict |-> TRUE,
                 value |-> [agent_id |-> JStr("study_scheduler_agent"), confidence |-> JNum(700),
                            reasoning |-> JStr("timetable")]]
          [] doc = "J_known_no_conf" ->
                [json |-> TRUE, dict |-> TRUE,
                 value |-> [agent_id |-> JStr("gemini-wrapper"), is_ambiguous |-> JBool(TRUE)]]
          [] doc = "J_unknown" ->
                [json |-> TRUE, dict |-> TRUE,
                 value |-> [agent_id |-> JStr("made_up_agent"), confidence |-> JNum(90),
                            reasoning |-> JStr("invented"), is_ambiguous |-> JBool(TRUE),
                            clarifying_questions |-> JList("[which topic?]")]]
          [] doc = "J_empty_object" -> [json |-> TRUE, dict |-> TRUE, value |-> EmptyDict]
          [] doc = "J_agent_list" ->
                [json |-> TRUE, dict |-> TRUE,
                 value |-> [agent_id |-> JList("[quiz]"), confidence |-> JNum(90)]]
          [] doc = "J_array" -> [json |-> TRUE, dict |-> FALSE, value |-> EmptyDict]
          [] OTHER -> [json |-> FALSE, dict |-> FALSE, value |-> EmptyDict]]

\* The backtick character (a TLA+ string cannot hold it).
Backtick == "BACKTICK"

\* "```json" and "```"
FenceOpen == <<Backtick, Backtick, Backtick, "j", "s", "o", "n">>
FenceClose == <<Backtick, Backtick, Backtick>>

\* What may surround a document in the response: <<before, after>>.
Wrappers ==
    { << <<>>, <<>> >>,
      << FenceOpen, FenceClose >>,
      << <<"\n">> \o FenceOpen \o <<"\n", " ">>, <<"\n">> \o FenceClose \o <<" ", "\n">> >>,
      << FenceOpen \o <<"\n">>, <<>> >>,
      << <<>>, <<"\n">> \o FenceClose >>,
      << FenceClose \o <<"\n">>, <<"\n">> \o FenceClose >> }

ResponseTexts ==
    {w[1] \o <<doc>> \o w[2] : w \in Wrappers, doc \in DOMAIN Documents}
    \cup {<<>>, <<" ">>, FenceOpen \o FenceClose}

\* generate_content raises, response.text raises, or response.text is a str.
LLMBehaviours ==
    {[kind |-> "generate_content raises", text |-> <<>>],
     [kind |-> "response.text raises", text |-> <<>>]}
    \cup {[kind |-> "text", text |-> t] : t \in ResponseTexts}

NoLLM == [kind |-> "", text |-> <<>>]

(***************************************************************************)
(* identify_intent: cleaning and parsing the response.                     *)
(***************************************************************************)
\* `if response_text.startswith("```json"): response_text = response_text[7:]`
StripFenceOpenShort(text) ==
    IF StartsWith(text, FenceOpen) THEN SubSeq(text, 4, Len(text)) ELSE text

StripFenceOpen(text) ==
    IF StartsWith(text, FenceOpen) THEN SubSeq(text, 8, Len(text)) ELSE text

\* `if response_text.endswith("```"): response_text = response_text[:-3]`
StripFenceClose(text) ==
    IF EndsWith(text, FenceClose) THEN SubSeq(text, 1, Len(text) - 3) ELSE text

\* response.text.strip(), the two fence removals, and the final strip().
CleanResponse(text) == Strip(StripFenceClose(StripFenceOpen(Strip(text))))

\* json.loads: the text must be exactly one JSON document.
json_loads(text) ==
    IF Len(text) = 1 /\ text[1] \in DOMAIN Documents /\ Documents[text[1]].json
    THEN [exc |-> "", dict |-> Documents[text[1]].dict, value |-> Documents[text[1]].value]
    ELSE [exc |-> "JSONDecodeError", dict |-> FALSE, value |-> EmptyDict]

\* A list or a dict is unhashable: testing it for membership in a dict raises TypeError.
Hashable(v) == v.kind \notin {"list", "dict"}

\* `agent_id in AGENT_DESCRIPTIONS` for a hashable agent_id
InRegistryValues(agent_id) == FALSE    \* tested against .values(): no id is a descriptor

InRegistry(agent_id) == agent_id.kind = "string" /\ agent_id.s \in AgentIds

\* intent_result["agent_id"] = "gemini-wrapper"; intent_result["confidence"] = 0.5
CorrectAgentOnly(intent_result) == Put(intent_result, "agent_id", JStr("gemini-wrapper"))

Correct(intent_result) ==
    Put(Put(intent_result, "agent_id", JStr("gemini-wrapper")), "confidence", JNum(50))

\* The statements after json.loads in the try block, for the parsed value.
Validate(parsed) ==
    IF ~parsed.dict
    THEN [exc |-> "AttributeError", value |-> EmptyDict]     \* no .get on a list
    ELSE LET agent_id == Get(parsed.value, "agent_id")
         IN  IF ~Hashable(agent_id) THEN [exc |-> "TypeError", value |-> EmptyDict]
             ELSE IF ~InRegistry(agent_id) THEN [exc |-> "", value |-> Correct(parsed.value)]
             ELSE [exc |-> "", value |-> parsed.value]

\* The try block: the exception it ends with ("" when it returns), the
\* value it returns, and the generate_content calls it made.
TryBlock(user_query_, history, behaviour) ==
    LET built == _build_prompt(user_query_, history)
    IN  CASE behaviour.kind = "generate_content raises" ->
                [exc |-> "APIError", value |-> EmptyDict, llm_calls |-> 1, prompt |-> built]
          [] behaviour.kind = "response.text raises" ->
                [exc |-> "ValueError", value |-> EmptyDict, llm_calls |-> 1, prompt |-> built]
          [] OTHER ->
                LET parsed == json_loads(CleanResponse(behaviour.text))
                    checked == Validate(parsed)
                IN  IF parsed.exc # ""
                    THEN [exc |-> parsed.exc, value |-> EmptyDict, llm_calls |-> 1,
                          prompt |-> built]
                    ELSE [exc |-> checked.exc, value |-> checked.value, llm_calls |-> 1,
                          prompt |-> built]

\* The exceptions that are subclasses of Exception.
ExceptionClasses == {"JSONDecodeError", "AttributeError", "TypeError", "ValueError", "APIError"}

\* `except Exception`
CaughtOnlyValueError(exc) == exc = "ValueError"

Caught(exc) == exc \in ExceptionClasses

\* `except json.JSONDecodeError`: return self._fallback_intent(user_query)
JSONErrorHandlerNoScoring(user_query_, calls) ==
    [pc |-> "returned", path |-> "json_error", result |-> _fallback_intent(<<>>),
     llm_calls |-> calls]

JSONErrorHandler(user_query_, calls) ==
    [pc |-> "returned", path |-> "json_error", result |-> _fallback_intent(user_query_),
     llm_calls |-> calls]

\* `except Exception`: return self._fallback_intent(user_query)
ExceptionHandlerRetrying(user_query_, calls) ==
    [pc |-> "returned", path |-> "exception", result |-> _fallback_intent(user_query_),
     llm_calls |-> calls + 1]

ExceptionHandler(user_query_, calls) ==
    [pc |-> "returned", path |-> "exception", result |-> _fallback_intent(user_query_),
     llm_calls |-> calls]

\* The whole call: how it ends ("returned", or "raised" when an exception
\* reaches the caller), by which return statement, with which result.
identify_intent(user_query_, history, behaviour) ==
    LET try == TryBlock(user_query_, history, behaviour)
        end == IF try.exc = ""
               THEN [pc |-> "returned", path |-> "llm", result |-> try.value,
                     llm_calls |-> try.llm_calls]
               ELSE IF try.exc = "JSONDecodeError"
               THEN JSONErrorHandler(user_query_, try.llm_calls)
               ELSE IF Caught(try.exc)
               THEN ExceptionHandler(user_query_, try.llm_calls)
               ELSE [pc |-> "raised", path |-> try.exc, result |-> EmptyDict,
                     llm_calls |-> try.llm_calls]
    IN  [pc |-> end.pc, path |-> end.path, result |-> end.result,
         llm_calls |-> end.llm_calls, prompt |-> try.prompt]

(***************************************************************************)
(* get_intent_identifier, one step per statement, for concurrent callers.  *)
(***************************************************************************)
Callers == 1..NCallers

\* Another call is in progress while `t` takes a step.
Overlaps(t) == \E u \in Callers : u # t /\ gpc[u] # "idle"

\* `if _intent_identifier is None`
IsNoneAlways(value) == TRUE

IsNone(value) == value = 0

Check(t) ==
    /\ gpc[t] = "idle"
    /\ gpc' = [gpc EXCEPT ![t] = IF IsNone(_intent_identifier) THEN "construct" ELSE "return"]
    /\ overlapped' = (overlapped \/ Overlaps(t))
    /\ UNCHANGED <<_intent_identifier, constructed, got, returned>>
    /\ UNCHANGED ivars

\* `_intent_identifier = IntentIdentifier()`
Construct(t) ==
    /\ gpc[t] = "construct"
    /\ constructed' = constructed + 1
    /\ _intent_identifier' = constructed + 1
    /\ gpc' = [gpc EXCEPT ![t] = "return"]
    /\ overlapped' = (overlapped \/ Overlaps(t))
    /\ UNCHANGED <<got, returned>>
    /\ UNCHANGED ivars

\* `return _intent_identifier`
ReturnInstance(t) ==
    /\ gpc[t] = "return"
    /\ got' = [got EXCEPT ![t] = _intent_identifier]
    /\ returned' = returned \cup {_intent_identifier}
    /\ gpc' = [gpc EXCEPT ![t] = "idle"]
    /\ overlapped' = (overlapped \/ Overlaps(t))
    /\ UNCHANGED <<_intent_identifier, constructed>>
    /\ UNCHANGED ivars

(***************************************************************************)
(* The specifications.                                                     *)
(***************************************************************************)
Init ==
    /\ pc = "idle"
    /\ user_query = <<>>
    /\ conversation_history = NoHistory
    /\ prompt = NoPrompt
    /\ llm = NoLLM
    /\ llm_calls = 0
    /\ path = ""
    /\ result = EmptyDict
    /\ _intent_identifier = 0
    /\ constructed = 0
    /\ gpc = [t \in Callers |-> "idle"]
    /\ got = [t \in Callers |-> 0]
    /\ returned = {}
    /\ overlapped = FALSE

\* A caller invokes identify_intent(user_query, conversation_history).
Invoke ==
    /\ pc = "idle"
    /\ \E q \in Queries, h \in Histories :
        /\ user_query' = q
        /\ conversation_history' = h
    /\ pc' = "invoked"
    /\ UNCHANGED <<prompt, llm, llm_calls, path, result>>
    /\ UNCHANGED svars

\* The body of identify_intent runs to its end, the LLM behaving as `b`.
IdentifyIntent ==
    /\ pc = "invoked"
    /\ \E b \in LLMBehaviours :
        \E r \in {identify_intent(user_query, conversation_history, b)} :
            /\ llm' = b
            /\ pc' = r.pc
            /\ path' = r.path
            /\ result' = r.result
            /\ llm_calls' = r.llm_calls
            /\ prompt' = r.prompt
    /\ UNCHANGED <<user_query, conversation_history>>
    /\ UNCHANGED svars

\* The caller takes the result; the next call starts afresh.
Receive ==
    /\ pc \in {"returned", "raised"}
    /\ pc' = "idle"
    /\ user_query' = <<>>
    /\ conversation_history' = NoHistory
    /\ prompt' = NoPrompt
    /\ llm' = NoLLM
    /\ llm_calls' = 0
    /\ path' = ""
    /\ result' = EmptyDict
    /\ UNCHANGED svars

Next == Invoke \/ IdentifyIntent \/ Receive

Spec == Init /\ [][Next]_vars

NextSingleton == \E t \in Callers : Check(t) \/ Construct(t) \/ ReturnInstance(t)

SpecSingleton == Init /\ [][NextSingleton]_vars

(***************************************************************************)
(* Properties.                                                             *)
(***************************************************************************)
Finished == pc \in {"returned", "raised"}

\* What json.loads gives for the cleaned response of this invocation.
Parsed == json_loads(CleanResponse(llm.text))

\* The LLM answered with text that parses as a JSON object.
ParsedObject == llm.kind = "text" /\ Parsed.exc = "" /\ Parsed.dict

\* The agent_id of that object is a key of the registry.
KnownAgent == ParsedObject /\ Get(Parsed.value, "agent_id").kind = "string"
              /\ Get(Parsed.value, "agent_id").s \in AgentIds

\* The call failed or the response is not parsable JSON.
LLMFailed == llm.kind # "text" \/ Parsed.exc = "JSONDecodeError"

AgentIsKey(d) == "agent_id" \in DOMAIN d /\ d["agent_id"].kind = "string"
                 /\ d["agent_id"].s \in AgentIds

ConfidenceInUnitInterval(d) ==
    "confidence" \in DOMAIN d /\ d["confidence"].kind = "number"
    /\ d["confidence"].n >= 0 /\ d["confidence"].n <= 100

\* The result _fallback_intent gives when no keyword matches.
NoMatchResult(d) ==
    AgentIsKey(d) /\ d["agent_id"].s = "gemini-wrapper" /\ d["confidence"] = JNum(30)

C2_AsClaimed ==
    pc = "returned" => AgentIsKey(result) /\ ConfidenceInUnitInterval(result)

\* C2 (amended): every returned result has an agent_id that is a key of the
\* registry; its confidence lies in [0, 1] on the corrected-agent path and
\* on the fallback path, and with a known agent_id it is the LLM's own
\* confidence entry, unvalidated (absent exactly when the LLM gave none).
C2_Amended ==
    pc = "returned" =>
        /\ AgentIsKey(result)
        /\ ~KnownAgent => ConfidenceInUnitInterval(result)
        /\ KnownAgent =>
            /\ ("confidence" \in DOMAIN result) = ("confidence" \in DOMAIN Parsed.value)
            /\ Get(result, "confidence") = Get(Parsed.value, "confidence")

C2_Witness ==
    pc = "returned" /\ KnownAgent /\ Get(result, "confidence") = JNum(700)

\* C3 (as claimed): when the response parses as a JSON object whose
\* agent_id is not a key of the registry, the result is that object with
\* agent_id "gemini-wrapper" and confidence 0.5, every other field
\* unchanged, and the keyword scorer is not used.
C3_AsClaimed ==
    (Finished /\ ParsedObject /\ ~KnownAgent) =>
        /\ pc = "returned"
        /\ path = "llm"
        /\ DOMAIN result = DOMAIN Parsed.value \cup {"agent_id", "confidence"}
        /\ result["agent_id"] = JStr("gemini-wrapper")
        /\ result["confidence"] = JNum(50)
        /\ \A k \in DOMAIN Parsed.value \ {"agent_id", "confidence"} :
                result[k] = Parsed.value[k]

\* C4: when the response parses as a JSON object whose agent_id is a key
\* of the registry, the result is exactly that object.
C4_KnownVerbatim ==
    (Finished /\ KnownAgent) => pc = "returned" /\ path = "llm" /\ result = Parsed.value

C4_Witness ==
    /\ pc = "returned"
    /\ llm.text = FenceOpen \o <<"J_known">> \o FenceClose
    /\ result = KnownObject

KeywordHits(i, query_lower) ==
    Cardinality({j \in 1..Len(AGENT_DESCRIPTIONS[i].keywords) :
                    Contains(query_lower, AGENT_DESCRIPTIONS[i].keywords[j])})

\* The hits of the agents i, i+1, ... in registry order.
RECURSIVE HitsFrom(_, _)
HitsFrom(i, query_lower) ==
    IF i > Len(AGENT_DESCRIPTIONS) THEN <<>>
    ELSE <<KeywordHits(i, query_lower)>> \o HitsFrom(i + 1, query_lower)

ScorerResult(query) ==
    LET hits == HitsFrom(1, Lower(query))
        s == CHOOSE m \in {hits[i] : i \in AgentIndex} : \A i \in AgentIndex : hits[i] <= m
        first == CHOOSE i \in AgentIndex : hits[i] = s /\ \A k \in 1..(i - 1) : hits[k] < s
    IN  [agent_id |-> IF s >= 1 THEN JStr(AGENT_DESCRIPTIONS[first].agent_id)
                      ELSE JStr("gemini-wrapper"),
         confidence |-> IF s >= 1 THEN JNum(IF 20 * s < 70 THEN 20 * s ELSE 70) ELSE JNum(30),
         reasoning |-> IF s >= 1 THEN JStr("Fallback keyword matching used")
                       ELSE JStr("No specific agent matched, using general LLM"),
         is_ambiguous |-> JBool(FALSE), clarifying_questions |-> JList("[]"),
         extracted_params |-> JDict("{}"), alternative_agents |-> JList("[]")]

\* C6: the fallback result is the first agent in registry order with the
\* highest count s >= 1 of keywords occurring in the lower-cased query,
\* with confidence min(0.7, 0.2*s), or "gemini-wrapper" with 0.3 when no
\* keyword occurs; the other fields are the empty defaults.  "quiz me on
\* linear algebra" gives adaptive_quiz_master_agent with 0.2 and "banana
\* smoothie recipe" gives gemini-wrapper with 0.3.
C6_FallbackScoring ==
    (pc = "returned" /\ path # "llm") =>
        /\ result = ScorerResult(user_query)
        /\ user_query = Fragments[1] =>
                result["agent_id"] = JStr("adaptive_quiz_master_agent")
                /\ result["confidence"] = JNum(20)
        /\ user_query = Fragments[2] =>
                result["agent_id"] = JStr("gemini-wrapper") /\ result["confidence"] = JNum(30)

C6_Witness ==
    /\ pc = "returned" /\ path # "llm"
    /\ user_query = Fragments[5]
    /\ KeywordHits(1, Lower(user_query)) = 1 /\ KeywordHits(14, Lower(user_query)) = 1
    /\ result["agent_id"] = JStr("adaptive_quiz_master_agent")

\* The JSON object texts.
ObjectDocuments == {doc \in DOMAIN Documents : Documents[doc].json /\ Documents[doc].dict}

\* `text` is `doc` inside a "```json" ... "```" fence, whitespace allowed
\* around the fence and around the document.
FencedAs(text, doc) ==
    \E a, b, c, d \in {<<>>, <<"\n">>, <<"\n", " ">>, <<" ", "\n">>} :
        text = a \o FenceOpen \o b \o <<doc>> \o c \o FenceClose \o d

\* C7: a response that wraps a JSON object text in a "```json" ... "```"
\* fence gives the same result as the response made of that text alone.
C7_FenceTransparent ==
    (pc = "returned" /\ llm.kind = "text") =>
        \A doc \in ObjectDocuments :
            FencedAs(llm.text, doc) =>
                result = identify_intent(user_query, conversation_history,
                                         [kind |-> "text", text |-> <<doc>>]).result

C7_Witness ==
    /\ pc = "returned"
    /\ FencedAs(llm.text, "J_unknown")
    /\ Len(llm.text) > Len(FenceOpen) + Len(FenceClose) + 1
    /\ result["agent_id"] = JStr("gemini-wrapper") /\ result["confidence"] = JNum(50)

C9_AsClaimed == constructed <= 1 /\ Cardinality(returned) <= 1

\* C9 (amended): as long as no call of get_intent_identifier runs a step
\* while another call is in progress, IntentIdentifier is constructed at
\* most once and every call returns the same instance.
C9_Amended == ~overlapped => (constructed <= 1 /\ Cardinality(returned) <= 1)

C9_Witness ==
    /\ ~overlapped
    /\ constructed = 1
    /\ \E t, u \in Callers : t # u /\ got[t] = 1 /\ got[u] = 1

\* C10 (as claimed): whenever the query contains a keyword of the registry
\* in any letter case, the fallback counts it for its agent, so that the
\* agent scores at least 1 and the result is not the no-match result.
C10_AsClaimed ==
    (pc = "returned" /\ path # "llm") =>
        LET any_case == Lower(user_query)
        IN  \A i \in AgentIndex : \A j \in 1..Len(AGENT_DESCRIPTIONS[i].keywords) :
                Contains(any_case, Lower(AGENT_DESCRIPTIONS[i].keywords[j])) =>
                    /\ Score(AGENT_DESCRIPTIONS[i], QueryLower(user_query)) >= 1
                    /\ ~NoMatchResult(result)
====
